---- MODULE Spec2Model ----
(***************************************************************************)
(* Temperature notification system.                                        *)
(*                                                                         *)
(*   main.py    the sensor-node client: a sampling loop that sends each    *)
(*              reading to the collector and keeps unsent readings in      *)
(*              unsent_data.json (store and forward).                      *)
(*   server.py  the collector: ingestion into the temperatures table, the  *)
(*              windowed accumulation, the alert gate on notified.flag     *)
(*              and the reset.                                             *)
(*                                                                         *)
(* Time is counted in seconds.  A timestamp string is modelled by the      *)
(* instant it denotes together with the number of blanks between the date  *)
(* and the time of day: the client writes two ("%Y-%m-%d  %H:%M:%S"), the  *)
(* collector parses and prints one ("%Y-%m-%d %H:%M:%S").                  *)
(***************************************************************************)
EXTENDS Integers, Sequences, FiniteSets, TLC

VARIABLES
    \* ---- client process (main.py) ----
    pc,          \* position of the client: "loop", "drain", "sendcur", "save";
                 \* "stopped" (not running), "died" (ended by an uncaught exception)
    file,        \* unsent_data.json: [st |-> "absent" | "ok" | "torn", q |-> readings]
    unsent,      \* unsent_data, the in-memory working list of the drain pass
    idx,         \* position of the list iterator of `for item in unsent_data`
    data,        \* <<reading>> of the current tick, <<>> while unbound
    tick,        \* number of readings sampled so far (the clock of the timestamps)
    temperature, \* the value last returned by sensor.get_temperature()
    valid,       \* result of valid_temperature(temperature) in the last tick
    beat,        \* flips at every pass through the top of the loop
    acked,       \* readings for which send_to_server returned True
    attempts,    \* readings handed to send_to_server in the current tick
    persistErr,  \* save_unsent_data caught and logged an error in the current tick
    calm,        \* environment: from now on probe and deliveries succeed, no faults
    \* ---- collector (server.py) ----
    store,       \* rows of the temperatures table, in insertion (id) order
    flag,        \* content of notified.flag: "0" or "1"
    mails,       \* mails delivered since the flag was last reset (or since the start)
    flagErr,     \* a write of notified.flag failed since the flag was last reset
    wasReset,    \* "no", or how the last successful reset found the flag:
                 \* "rearmed" (it was "1") or "idle"
    resp,        \* response of the last HTTP request handled
    hist         \* what the last handler saw and did

clientVars == <<pc, file, unsent, idx, data, tick, temperature, valid, beat,
                acked, attempts, persistErr, calm>>
serverVars == <<flag, mails, flagErr, wasReset, resp, hist>>
tableVars  == <<store>>
vars == <<clientVars, tableVars, serverVars>>

----------------------------------------------------------------------------
(* Bounds of the model *)

MaxTicks == 3      \* readings sampled before the environment settles
MaxStore == 2      \* rows the collector's table holds in the collector's own runs
MaxRecs == 3       \* rows of a table handed to the aggregation alone
MaxMails == 2      \* mails counted per armed period

(* Program constants *)

INTERVAL == 30
THRESHOLD == 255
WINDOW == 300

(* Model value sets *)

Temps == {-11, -10, 100, 101}       \* what the sensor may return (main.py:136)
Outcomes == {"ok", "refused", "noack", "status"}
    \* of one requests.post: "ok"      stored, 2xx received
    \*                       "refused" transport error, request never handled
    \*                       "noack"   stored, but the response never arrived
    \*                       "status"  the handler rolled back and answered 500
IO == {"ok", "err"}                 \* of one file or database operation
ServerTemps == {100, 155}           \* temperatures posted to the collector
ServerSecs == {0, 301}              \* instants posted to the collector
MailOutcomes == {"sent", "smtpfail", "flagfail"}
    \* of one gmail_notification: "sent"     mail delivered, flag written
    \*                            "smtpfail" login or send raised
    \*                            "flagfail" mail delivered, the flag write raised
DAY == 24 * 60 * 60

----------------------------------------------------------------------------
(* main.py: pure parts *)

TS(sec, sp) == [sec |-> sec, sp |-> sp]

\* time.strftime("%Y-%m-%d  %H:%M:%S", ...): two blanks
client_strftime(sec) == TS(sec, 2)

\* mutant: the range taken open at both ends
valid_temperature_open(temp) == -10 < temp /\ temp < 100

valid_temperature(temp) == -10 <= temp /\ temp <= 100

Elems(s) == {s[i] : i \in 1..Len(s)}

\* mutant: nothing is removed
ListRemove_none(s, x) == s

\* list.remove(x): drops the first element equal to x
ListRemove(s, x) ==
    LET k == CHOOSE i \in 1..Len(s) :
                 s[i] = x /\ \A j \in 1..(i - 1) : s[j] # x
    IN  [i \in 1..(Len(s) - 1) |-> IF i < k THEN s[i] ELSE s[i + 1]]

Absent == [st |-> "absent", q |-> <<>>]
Torn == [st |-> "torn", q |-> <<>>]
Written(q) == [st |-> "ok", q |-> q]

\* load_unsent_data on a readable file
load_unsent_data(f) == IF f.st = "absent" THEN <<>> ELSE f.q

\* mutant: the list is written back before the append
save_unsent_data_stale(f, d) == Written(load_unsent_data(f))

\* mutant: the reading is put in front of the list
save_unsent_data_front(f, d) == Written(<<d>> \o load_unsent_data(f))

\* save_unsent_data when no file operation fails: create "[]" if absent,
\* read, append, write back
save_unsent_data(f, d) == Written(Append(load_unsent_data(f), d))

\* the content the drain pass leaves: the remaining list, or no file at all
drain_result(f, rest, io) ==
    IF rest # <<>> THEN Written(rest)
    ELSE IF io = "ok" THEN Absent ELSE f     \* a failed unlink is caught and logged

\* send_to_server: True exactly on a 2xx answer
send_ok(o) == o = "ok"

\* the positions at which no client process is running
Halted == {"stopped", "died"}

\* what a file write that is interrupted or fails may leave behind
AfterBrokenWrite(f) == {f, Torn}

----------------------------------------------------------------------------
(* server.py: the table *)

Row(id, ts, temp) == [id |-> id, timestamp |-> ts, temperature |-> temp]

\* the primary key SQLite gives a new row of an INTEGER PRIMARY KEY column:
\* one more than the largest in the table
NextId(st) == IF st = <<>> THEN 1 ELSE st[Len(st)].id + 1

\* save_temperature's db.add / db.commit: plain insert, new primary key
Insert(st, ts, temp) == Append(st, Row(NextId(st), ts, temp))

\* the collector's side of one POST of `item` with outcome o
Collector(item, o) ==
    IF o \in {"ok", "noack"}
    THEN store' = Insert(store, item.timestamp, item.temperature)
    ELSE UNCHANGED tableVars

----------------------------------------------------------------------------
(* main.py: the sampling loop *)

\* top of the loop up to the branch on connected()
Sample(temp, conn) ==
    /\ pc = "loop"
    /\ tick < MaxTicks \/ calm
    /\ calm => conn
    /\ beat' = ~beat
    /\ temperature' = temp
    /\ valid' = valid_temperature(temp)
    /\ attempts' = <<>>
    /\ persistErr' = FALSE
    /\ IF ~valid_temperature(temp)
       THEN UNCHANGED <<pc, file, unsent, idx, data, tick, acked, calm>>
       ELSE /\ tick' = IF tick <= MaxTicks THEN tick + 1 ELSE tick
            /\ IF file.st = "torn"
               THEN \* json.loads raises out of main(): the process ends
                    /\ pc' = "died"
                    /\ data' = <<>>
                    /\ unsent' = <<>>
                    /\ idx' = 0
               ELSE /\ data' = <<[timestamp |-> client_strftime(tick' * INTERVAL),
                                  temperature |-> temp]>>
                    /\ unsent' = load_unsent_data(file)
                    /\ idx' = 0
                    /\ pc' = IF conn THEN "drain" ELSE "save"
            /\ UNCHANGED <<file, acked, calm>>
    /\ UNCHANGED <<tableVars, serverVars>>

\* one iteration of `for item in unsent_data`
DrainSend(o) ==
    /\ pc = "drain"
    /\ idx < Len(unsent)
    /\ calm => o = "ok"
    /\ LET item == unsent[idx + 1] IN
         /\ attempts' = Append(attempts, item)
         /\ IF send_ok(o)
            THEN /\ acked' = acked \cup {item}
                 /\ unsent' = ListRemove(unsent, item)
            ELSE UNCHANGED <<acked, unsent>>
    /\ idx' = idx + 1
    /\ UNCHANGED <<pc, file, data, tick, temperature, valid, beat, persistErr, calm>>
    /\ UNCHANGED serverVars

\* after the loop: rewrite the file with what is left, or remove it
Rewrite(io) ==
    /\ pc = "drain"
    /\ idx >= Len(unsent)
    /\ calm => io = "ok"
    /\ IF unsent # <<>> /\ io = "err"
       THEN \* write_text raises out of main(): the process ends
            /\ pc' = "died"
            /\ file' \in AfterBrokenWrite(file)
            /\ unsent' = <<>>
            /\ idx' = 0
            /\ data' = <<>>
       ELSE /\ file' = drain_result(file, unsent, io)
            /\ pc' = "sendcur"
            /\ UNCHANGED <<unsent, idx, data>>
    /\ UNCHANGED <<tick, temperature, valid, beat, acked, attempts, persistErr, calm>>
    /\ UNCHANGED <<tableVars, serverVars>>

\* if not send_to_server(data)
SendCurrent(o) ==
    /\ pc = "sendcur"
    /\ calm => o = "ok"
    /\ attempts' = Append(attempts, data[1])
    /\ IF send_ok(o)
       THEN /\ acked' = acked \cup {data[1]}
            /\ pc' = "loop"
       ELSE /\ pc' = "save"
            /\ UNCHANGED acked
    /\ UNCHANGED <<file, unsent, idx, data, tick, temperature, valid, beat,
                   persistErr, calm>>
    /\ UNCHANGED serverVars

\* save_unsent_data(data), then the sleep
Save(io) ==
    /\ pc = "save"
    /\ calm => io = "ok"
    /\ IF io = "ok" /\ file.st # "torn"
       THEN /\ file' = save_unsent_data(file, data[1])
            /\ UNCHANGED persistErr
       ELSE \* the exception is caught and logged
            /\ file' \in AfterBrokenWrite(file)
            /\ persistErr' = TRUE
    /\ pc' = "loop"
    /\ UNCHANGED <<unsent, idx, data, tick, temperature, valid, beat, acked,
                   attempts, calm>>
    /\ UNCHANGED <<tableVars, serverVars>>

\* the process is killed (power loss, reboot); a write in progress may be cut
Crash ==
    /\ pc \notin Halted
    /\ ~calm
    /\ pc' = "stopped"
    /\ unsent' = <<>>
    /\ idx' = 0
    /\ data' = <<>>
    /\ file' \in IF \/ pc = "save"
                    \/ pc = "drain" /\ idx >= Len(unsent) /\ unsent # <<>>
                 THEN AfterBrokenWrite(file)
                 ELSE {file}
    /\ UNCHANGED <<tick, temperature, valid, beat, acked, attempts, persistErr, calm>>
    /\ UNCHANGED <<tableVars, serverVars>>

\* main() without --reset
Start ==
    /\ pc \in Halted
    /\ pc' = "loop"
    /\ UNCHANGED <<file, unsent, idx, data, tick, temperature, valid, beat, acked,
                   attempts, persistErr, calm>>
    /\ UNCHANGED <<tableVars, serverVars>>

\* main() with --reset: clear_unsent_data(), exit()
Reset ==
    /\ pc \in Halted
    /\ ~calm
    /\ file.st # "absent"
    /\ file' = Absent
    /\ UNCHANGED <<pc, unsent, idx, data, tick, temperature, valid, beat, acked,
                   attempts, persistErr, calm>>
    /\ UNCHANGED <<tableVars, serverVars>>

\* the environment settles: from here on the probe and every delivery succeed
\* and nothing fails or kills the process
Calm ==
    /\ ~calm
    /\ pc \notin Halted
    /\ file.st # "torn"
    /\ calm' = TRUE
    /\ UNCHANGED <<pc, file, unsent, idx, data, tick, temperature, valid, beat,
                   acked, attempts, persistErr>>
    /\ UNCHANGED <<tableVars, serverVars>>

ClientInit ==
    /\ pc = "stopped"
    /\ file = Absent
    /\ unsent = <<>>
    /\ idx = 0
    /\ data = <<>>
    /\ tick = 0
    /\ temperature = 0
    /\ valid = TRUE
    /\ beat = FALSE
    /\ acked = {}
    /\ attempts = <<>>
    /\ persistErr = FALSE
    /\ calm = FALSE

\* run: flips at every run of the periodic job; at, rat: where a check and a
\* reset taken statement by statement stand ("idle": not in progress)
NoHist == [op |-> "none", notified |-> FALSE, mail |-> "none", acc |-> 0,
           run |-> FALSE, at |-> "idle", rat |-> "idle"]

ServerInit ==
    /\ store = <<>>
    /\ flag = "0"
    /\ mails = 0
    /\ flagErr = FALSE
    /\ wasReset = "no"
    /\ resp = [code |-> 0, body |-> <<>>]
    /\ hist = NoHist

Init == ClientInit /\ ServerInit

\* the loop's own steps, each send together with the collector's handling of it
LoopStep ==
    \/ \E temp \in Temps, conn \in BOOLEAN : Sample(temp, conn)
    \/ \E o \in Outcomes : DrainSend(o) /\ Collector(unsent[idx + 1], o)
    \/ \E io \in IO : Rewrite(io)
    \/ \E o \in Outcomes : SendCurrent(o) /\ Collector(data[1], o)
    \/ \E io \in IO : Save(io)

Next ==
    \/ LoopStep
    \/ Crash
    \/ Start
    \/ Reset

Spec == Init /\ [][Next]_vars

\* The client alone, the collector seen only through its answers, in an
\* environment that may settle for good.  The loop is sequential and sleeps a
\* fixed time between ticks, so its next step is always taken.
ClientStep ==
    \/ \E temp \in Temps, conn \in BOOLEAN : Sample(temp, conn)
    \/ \E o \in Outcomes : DrainSend(o) /\ UNCHANGED tableVars
    \/ \E io \in IO : Rewrite(io)
    \/ \E o \in Outcomes : SendCurrent(o) /\ UNCHANGED tableVars
    \/ \E io \in IO : Save(io)

LiveNext ==
    \/ ClientStep
    \/ Crash
    \/ Start
    \/ Reset
    \/ Calm

LiveSpec == Init /\ [][LiveNext]_vars /\ WF_vars(ClientStep)

----------------------------------------------------------------------------
(* server.py: timestamps as strings *)

\* datetime.strptime(s, "%Y-%m-%d %H:%M:%S") accepts any run of blanks where
\* the format has one; sp = 0 stands for a string it rejects (ValueError)
Parseable(ts) == ts.sp \in {1, 2}
strptime(ts) == ts.sec

\* datetime.strftime("%Y-%m-%d %H:%M:%S"): one blank
server_strftime(sec) == TS(sec, 1)

\* order_by(Temperature.timestamp) compares the strings: the date first, then,
\* on the same date, a second blank sorts before any digit of the hour; strings
\* of the same shape compare as their instants; a rejected string is taken to
\* sort after the well-formed ones
StrLess(a, b) ==
    IF a.sp = 0 \/ b.sp = 0 THEN a.sp # 0 /\ b.sp = 0
    ELSE LET da == a.sec \div DAY
             db == b.sec \div DAY
         IN  \/ da < db
             \/ da = db /\ a.sp > b.sp
             \/ da = db /\ a.sp = b.sp /\ a.sec < b.sec

RowBefore(r, q) ==
    \/ StrLess(r.timestamp, q.timestamp)
    \/ r.timestamp = q.timestamp /\ r.id < q.id

RECURSIVE SortRows(_)
SortRows(S) ==
    IF S = {} THEN <<>>
    ELSE LET m == CHOOSE r \in S : \A q \in S \ {r} : RowBefore(r, q)
         IN  <<m>> \o SortRows(S \ {m})

\* mutant: the rows are taken in insertion order
records_of_insertion(st) == st

\* db.query(Temperature).order_by(Temperature.timestamp).all()
records_of(st) == SortRows(Elems(st))

----------------------------------------------------------------------------
(* server.py: calculate_accumulative_temperature, the windowed maximum *)

\* while record_time > interval_end: interval_end += timedelta(minutes=5)
RECURSIVE Advance(_, _)
Advance(end, t) == IF t > end THEN Advance(end + WINDOW, t) ELSE end

\* the emission of the open window: sum and max_points
Flush(w) ==
    IF w.open
    THEN [w EXCEPT !.acc = w.acc + w.max,
                   !.points = Append(w.points, <<server_strftime(w.maxTime), w.max>>)]
    ELSE w

\* the body of `for record_i in records`; open = FALSE stands for the maximum
\* still being float("-inf")
StepWindow(w, r) ==
    LET t == strptime(r.timestamp) IN
    IF t <= w.end
    THEN IF ~w.open \/ r.temperature > w.max
         THEN [w EXCEPT !.open = TRUE, !.max = r.temperature, !.maxTime = t]
         ELSE w
    ELSE [Flush(w) EXCEPT !.end = Advance(w.end, t), !.open = TRUE,
                          !.max = r.temperature, !.maxTime = t]

RECURSIVE Walk(_, _, _)
Walk(w, recs, i) ==
    IF i > Len(recs) THEN w ELSE Walk(StepWindow(w, recs[i]), recs, i + 1)

Failed == [error |-> TRUE, acc |-> 0, points |-> <<>>]
Result(acc, points) == [error |-> FALSE, acc |-> acc, points |-> points]

\* the aggregation part of calculate_accumulative_temperature; a rejected
\* timestamp raises out of the function
windowed(st) ==
    LET recs == records_of(st) IN
    IF recs = <<>> THEN Result(0, <<>>)
    ELSE IF \E i \in 1..Len(recs) : ~Parseable(recs[i].timestamp) THEN Failed
    ELSE LET start == strptime(recs[1].timestamp)
             w0 == [end |-> start + WINDOW, open |-> FALSE, max |-> 0,
                    maxTime |-> start, acc |-> 0, points |-> <<>>]
             w == Flush(Walk(w0, recs, 1))
         IN  Result(w.acc, w.points)

----------------------------------------------------------------------------
(* server.py: the alert gate and the handlers.  Every handler is an `async
   def` without an await in it, and the periodic job is a coroutine on the
   same event loop: each runs to completion before the next one starts. *)

\* is_notified = NOTIFY_FLAG_FILE.read_text().strip() == "1"
is_notified(f) == f = "1"

\* mutant: the threshold itself already alerts
alert_due_inclusive(acc, f) == acc >= THRESHOLD /\ ~is_notified(f)

\* mutant: the flag is not consulted
alert_due_unguarded(acc, f) == acc > THRESHOLD

\* if accumulative_temperature > THRESHOLD and not is_notified
alert_due(acc, f) == acc > THRESHOLD /\ ~is_notified(f)

\* mutant: the flag is written whether or not the mail went out
gmail_notification_always(f, m) == "1"

\* gmail_notification, the flag file after it when the write of the flag does
\* not fail: "1" once the mail is sent, untouched when login or send raised
gmail_notification(f, m) == IF m = "sent" THEN "1" ELSE f

\* mutant: the reset leaves the flag file as it is
reset_flag_kept(f) == f

\* NOTIFY_FLAG_FILE.write_text("0")
reset_flag(f) == "0"

\* what a failed write of the flag file may leave: the old content, or nothing
AfterBrokenFlag(f) == {f, ""}

\* POST /temperature/
save_temperature(ts, temp, db) ==
    /\ Len(store) < MaxStore
    /\ IF db = "ok"
       THEN /\ store' = Insert(store, ts, temp)
            /\ resp' = [code |-> 200, body |-> <<NextId(store)>>]
       ELSE \* db.rollback(), HTTPException(500)
            /\ UNCHANGED tableVars
            /\ resp' = [code |-> 500, body |-> <<>>]
    /\ hist' = [NoHist EXCEPT !.op = "post"]
    /\ UNCHANGED <<flag, mails, flagErr, wasReset>>
    /\ UNCHANGED clientVars

\* the body GET /temperature/ returns for a table
temperature_list(st) ==
    [i \in 1..Len(st) |-> [timestamp |-> st[i].timestamp,
                           temperature |-> st[i].temperature]]

\* GET /temperature/
get_temperature ==
    /\ resp' = [code |-> 200, body |-> temperature_list(store)]
    /\ hist' = [NoHist EXCEPT !.op = "list"]
    /\ UNCHANGED <<flag, mails, flagErr, wasReset>>
    /\ UNCHANGED <<clientVars, tableVars>>

\* the body GET /accumulative_temperature/ returns for a result
accumulative_body(res) == <<res.acc, res.points>>

\* GET /accumulative_temperature/: calculate_accumulative_temperature(db),
\* with gmail_notification when the gate opens
get_accumulative_temperature(m) ==
    LET res == windowed(store)
        due == ~res.error /\ store # <<>> /\ alert_due(res.acc, flag)
    IN  /\ due /\ m # "smtpfail" => mails < MaxMails
        /\ ~due => m = "sent"
        /\ resp' = IF res.error THEN [code |-> 500, body |-> <<>>]
                   ELSE [code |-> 200, body |-> accumulative_body(res)]
        /\ hist' = [NoHist EXCEPT !.op = "check", !.notified = is_notified(flag),
                                  !.acc = res.acc,
                                  !.mail = IF due THEN m ELSE "none"]
        /\ IF ~due THEN UNCHANGED <<flag, mails, flagErr>>
           ELSE IF m = "sent"
                THEN /\ flag' = gmail_notification(flag, m)
                     /\ mails' = mails + 1
                     /\ UNCHANGED flagErr
           ELSE IF m = "flagfail"
                THEN /\ flag' \in AfterBrokenFlag(flag)
                     /\ mails' = mails + 1
                     /\ flagErr' = TRUE
           ELSE /\ flag' = gmail_notification(flag, m)
                /\ UNCHANGED <<mails, flagErr>>
        /\ UNCHANGED wasReset
        /\ UNCHANGED <<clientVars, tableVars>>

\* the periodic job: repeat_every calls it without arguments, so db is the
\* Depends(get_db) default and db.query raises before anything is read
accumulative_temperature_check ==
    /\ hist' = [NoHist EXCEPT !.op = "job", !.run = ~hist.run]
    /\ UNCHANGED <<flag, mails, flagErr, wasReset, resp>>
    /\ UNCHANGED <<clientVars, tableVars>>

\* DELETE /temperature/reset/: delete, commit, then the flag file
reset_temperature(db, fl) ==
    /\ hist' = [NoHist EXCEPT !.op = "reset"]
    /\ IF db = "err"
       THEN \* db.rollback(), HTTPException(500)
            /\ resp' = [code |-> 500, body |-> <<>>]
            /\ UNCHANGED <<store, flag, mails, flagErr, wasReset>>
       ELSE IF fl = "err"
       THEN \* the commit is done; rollback has nothing to undo
            /\ store' = <<>>
            /\ flag' \in AfterBrokenFlag(flag)
            /\ flagErr' = TRUE
            /\ resp' = [code |-> 500, body |-> <<>>]
            /\ UNCHANGED <<mails, wasReset>>
       ELSE /\ store' = <<>>
            /\ flag' = reset_flag(flag)
            /\ mails' = 0
            /\ flagErr' = FALSE
            /\ wasReset' = IF is_notified(flag) THEN "rearmed" ELSE "idle"
            /\ resp' = [code |-> 200, body |-> <<>>]
    /\ UNCHANGED clientVars

ServerStamps == {TS(sec, sp) : sec \in ServerSecs, sp \in {1, 2}} \cup {TS(0, 0)}

ServerNext ==
    \/ \E ts \in ServerStamps, temp \in ServerTemps, db \in IO :
           save_temperature(ts, temp, db)
    \/ get_temperature
    \/ \E m \in MailOutcomes : get_accumulative_temperature(m)
    \/ accumulative_temperature_check
    \/ \E db \in IO, fl \in IO : reset_temperature(db, fl)

ServerSpec == Init /\ [][ServerNext]_vars

\* The aggregation alone, on every small table
AggTemps == {10, 20}
AggSecs == {0, 60, 300, 360, 2820}
AggStamps == {TS(sec, sp) : sec \in AggSecs, sp \in {1, 2}}

RECURSIVE Tables(_)
Tables(n) ==
    IF n = 0 THEN {<<>>}
    ELSE LET shorter == Tables(n - 1)
         IN  shorter \cup {Insert(st, ts, temp) :
                               st \in {x \in shorter : Len(x) = n - 1},
                               ts \in AggStamps, temp \in AggTemps}

AggInit ==
    /\ ClientInit
    /\ store \in Tables(MaxRecs)
    /\ flag = "0"
    /\ mails = 0
    /\ flagErr = FALSE
    /\ wasReset = "no"
    /\ resp = [code |-> 0, body |-> <<>>]
    /\ hist = NoHist

AggNext ==
    \/ get_temperature
    \/ \E m \in MailOutcomes : get_accumulative_temperature(m)

AggSpec == AggInit /\ [][AggNext]_vars

----------------------------------------------------------------------------
(* server.py: calculate_accumulative_temperature_production_env, the daily
   maximum.  No handler calls it; it is applied here to the table as the
   windowed variant is. *)

\* record_i.timestamp.split(" ")[0]: the date of a well-formed string; a string
\* strptime rejects stands for one without a blank in it (the ISO "T" form),
\* whose first piece is the whole string
date_str(ts) ==
    IF ts.sp = 0 THEN [bad |-> TRUE, day |-> ts.sec]
    ELSE [bad |-> FALSE, day |-> ts.sec \div DAY]

\* the order sorted() gives the keys: dates ascending, the other strings taken
\* to sort after them
KeyLess(a, b) ==
    \/ ~a.bad /\ b.bad
    \/ a.bad = b.bad /\ a.day < b.day

\* mutant: the dictionary keeps the last temperature of each key
daily_max_last(d, recs, i) ==
    [k \in {date_str(recs[j].timestamp) : j \in 1..Len(recs)} |->
        recs[CHOOSE j \in 1..Len(recs) :
                 /\ date_str(recs[j].timestamp) = k
                 /\ \A n \in (j + 1)..Len(recs) : date_str(recs[n].timestamp) # k
            ].temperature]

\* daily_max[date_str] = max(daily_max[date_str], record_i.temperature) over
\* the records; the dictionary is a function on the keys seen so far
RECURSIVE daily_max(_, _, _)
daily_max(d, recs, i) ==
    IF i > Len(recs) THEN d
    ELSE LET k == date_str(recs[i].timestamp)
             t == recs[i].temperature
             v == IF k \in DOMAIN d /\ d[k] > t THEN d[k] ELSE t
         IN  daily_max([x \in DOMAIN d \cup {k} |-> IF x = k THEN v ELSE d[x]],
                       recs, i + 1)

\* sorted(daily_max.items())
RECURSIVE sorted_items(_)
sorted_items(d) ==
    IF DOMAIN d = {} THEN <<>>
    ELSE LET k == CHOOSE x \in DOMAIN d : \A y \in DOMAIN d \ {x} : KeyLess(x, y)
         IN  <<<<k, d[k]>>>> \o sorted_items([x \in DOMAIN d \ {k} |-> d[x]])

\* sum(temp for _, temp in daily_max_points)
RECURSIVE sum_points(_, _)
sum_points(points, i) ==
    IF i > Len(points) THEN 0 ELSE points[i][2] + sum_points(points, i + 1)

\* the aggregation part of calculate_accumulative_temperature_production_env
daily(st) ==
    LET recs == records_of(st) IN
    IF recs = <<>> THEN Result(0, <<>>)
    ELSE LET points == sorted_items(daily_max(<<>>, recs, 1))
         IN  Result(sum_points(points, 1), points)

\* calculate_accumulative_temperature_production_env(db), with
\* gmail_notification when the gate opens; resp holds the value it returns
calculate_accumulative_temperature_production_env(m) ==
    LET res == daily(store)
        due == store # <<>> /\ alert_due(res.acc, flag)
    IN  /\ due /\ m # "smtpfail" => mails < MaxMails
        /\ ~due => m = "sent"
        /\ resp' = [code |-> 200, body |-> accumulative_body(res)]
        /\ hist' = [NoHist EXCEPT !.op = "daily", !.notified = is_notified(flag),
                                  !.acc = res.acc,
                                  !.mail = IF due THEN m ELSE "none"]
        /\ IF ~due THEN UNCHANGED <<flag, mails, flagErr>>
           ELSE IF m = "sent"
                THEN /\ flag' = gmail_notification(flag, m)
                     /\ mails' = mails + 1
                     /\ UNCHANGED flagErr
           ELSE IF m = "flagfail"
                THEN /\ flag' \in AfterBrokenFlag(flag)
                     /\ mails' = mails + 1
                     /\ flagErr' = TRUE
           ELSE /\ flag' = gmail_notification(flag, m)
                /\ UNCHANGED <<mails, flagErr>>
        /\ UNCHANGED wasReset
        /\ UNCHANGED <<clientVars, tableVars>>

\* Both policies on every small table, rejected timestamps included
DailyTemps == {40, 60}
\* the last two minutes of one date, the first two of the next, and a rejected string
DailyStamps == {TS(DAY - 120, 1), TS(DAY - 60, 2), TS(DAY, 1), TS(DAY + 60, 2), TS(0, 0)}

RECURSIVE DailyTables(_)
DailyTables(n) ==
    IF n = 0 THEN {<<>>}
    ELSE LET shorter == DailyTables(n - 1)
         IN  shorter \cup {Insert(st, ts, temp) :
                               st \in {x \in shorter : Len(x) = n - 1},
                               ts \in DailyStamps, temp \in DailyTemps}

DailyInit ==
    /\ ClientInit
    /\ store \in DailyTables(MaxRecs)
    /\ flag = "0"
    /\ mails = 0
    /\ flagErr = FALSE
    /\ wasReset = "no"
    /\ resp = [code |-> 0, body |-> <<>>]
    /\ hist = NoHist

DailyNext ==
    \/ \E m \in MailOutcomes : get_accumulative_temperature(m)
    \/ \E m \in MailOutcomes : calculate_accumulative_temperature_production_env(m)

DailySpec == DailyInit /\ [][DailyNext]_vars

\* The windowed aggregation asked repeatedly, on every small table of readings
\* around one window boundary, some of them high enough to raise the alert
OrderTemps == {10, 130}
OrderStamps == {TS(sec, sp) : sec \in {0, 300, 360}, sp \in {1, 2}}

RECURSIVE OrderTables(_)
OrderTables(n) ==
    IF n = 0 THEN {<<>>}
    ELSE LET shorter == OrderTables(n - 1)
         IN  shorter \cup {Insert(st, ts, temp) :
                               st \in {x \in shorter : Len(x) = n - 1},
                               ts \in OrderStamps, temp \in OrderTemps}

OrderInit ==
    /\ ClientInit
    /\ store \in OrderTables(MaxRecs)
    /\ flag = "0"
    /\ mails = 0
    /\ flagErr = FALSE
    /\ wasReset = "no"
    /\ resp = [code |-> 0, body |-> <<>>]
    /\ hist = NoHist

OrderNext == \E m \in MailOutcomes : get_accumulative_temperature(m)

OrderSpec == OrderInit /\ [][OrderNext]_vars

----------------------------------------------------------------------------
(* server.py: the check and the reset statement by statement.  hist is the
   frame of the handler in progress: at is the position of a check ("gate":
   rows aggregated, flag not yet read; "mail": gate passed, mail not yet sent;
   "flag": mail sent, flag not yet written), rat that of a reset ("flag": rows
   deleted and committed, flag not yet written). *)

\* mutant: handlers run in threads, one can start while another is under way
loop_free_threaded(at) == TRUE

\* the handlers are coroutines without an await on one event loop: one starts
\* only when the other, at position `at`, is not in progress
loop_free(at) == at = "idle"

\* POST /temperature/ between the steps of the others
StepPost(ts, temp) ==
    /\ Len(store) < MaxStore
    /\ loop_free(hist.at) /\ loop_free(hist.rat)
    /\ store' = Insert(store, ts, temp)
    /\ resp' = [code |-> 200, body |-> <<NextId(store)>>]
    /\ hist' = [hist EXCEPT !.op = "post"]
    /\ UNCHANGED <<flag, mails, flagErr, wasReset>>
    /\ UNCHANGED clientVars

\* server.py:138-182: the rows are read and aggregated; resp holds from here
\* on the result the handler returns when it is through
CheckBegin ==
    /\ hist.at = "idle" /\ loop_free(hist.rat)
    /\ LET res == windowed(store) IN
         /\ hist' = [hist EXCEPT !.op = "check", !.acc = res.acc, !.mail = "none",
                                 !.notified = FALSE,
                                 !.at = IF store = <<>> THEN "idle" ELSE "gate"]
         /\ resp' = [code |-> 200, body |-> accumulative_body(res)]
    /\ UNCHANGED <<store, flag, mails, flagErr, wasReset>>
    /\ UNCHANGED clientVars

\* server.py:183-184: the flag is read and the gate decided
CheckGate ==
    /\ hist.at = "gate"
    /\ LET due == alert_due(hist.acc, flag) IN
         /\ hist' = [hist EXCEPT !.op = "check", !.notified = is_notified(flag),
                                 !.at = IF due THEN "mail" ELSE "idle"]
    /\ UNCHANGED <<store, flag, mails, flagErr, wasReset, resp>>
    /\ UNCHANGED clientVars

\* server.py:123-125: login and send
CheckMail(m) ==
    /\ hist.at = "mail"
    /\ m # "smtpfail" => mails < MaxMails
    /\ hist' = [hist EXCEPT !.op = "check", !.mail = m,
                            !.at = IF m = "smtpfail" THEN "idle" ELSE "flag"]
    /\ mails' = IF m = "smtpfail" THEN mails ELSE mails + 1
    /\ UNCHANGED <<store, flag, flagErr, wasReset, resp>>
    /\ UNCHANGED clientVars

\* server.py:127: the flag is written, and the handler returns
CheckFlag ==
    /\ hist.at = "flag"
    /\ IF hist.mail = "sent"
       THEN flag' = gmail_notification(flag, "sent") /\ UNCHANGED flagErr
       ELSE flag' \in AfterBrokenFlag(flag) /\ flagErr' = TRUE
    /\ hist' = [hist EXCEPT !.op = "check", !.at = "idle"]
    /\ UNCHANGED <<store, mails, wasReset, resp>>
    /\ UNCHANGED clientVars

\* server.py:298-299: delete and commit
ResetBegin(db) ==
    /\ hist.rat = "idle" /\ loop_free(hist.at)
    /\ IF db = "err"
       THEN /\ resp' = [code |-> 500, body |-> <<>>]
            /\ hist' = [hist EXCEPT !.op = "reset"]
            /\ UNCHANGED store
       ELSE /\ store' = <<>>
            /\ hist' = [hist EXCEPT !.op = "reset", !.rat = "flag"]
            /\ UNCHANGED resp
    /\ UNCHANGED <<flag, mails, flagErr, wasReset>>
    /\ UNCHANGED clientVars

\* server.py:300-304: the flag is written, and the handler returns
ResetFlag(fl) ==
    /\ hist.rat = "flag"
    /\ IF fl = "err"
       THEN /\ flag' \in AfterBrokenFlag(flag)
            /\ flagErr' = TRUE
            /\ resp' = [code |-> 500, body |-> <<>>]
            /\ UNCHANGED <<mails, wasReset>>
       ELSE /\ flag' = reset_flag(flag)
            /\ mails' = 0
            /\ flagErr' = FALSE
            /\ wasReset' = IF is_notified(flag) THEN "rearmed" ELSE "idle"
            /\ resp' = [code |-> 200, body |-> <<>>]
    /\ hist' = [hist EXCEPT !.op = "reset", !.rat = "idle"]
    /\ UNCHANGED store
    /\ UNCHANGED clientVars

StepStamps == {TS(sec, 1) : sec \in ServerSecs}

StepNext ==
    \/ \E ts \in StepStamps, temp \in ServerTemps : StepPost(ts, temp)
    \/ CheckBegin
    \/ CheckGate
    \/ \E m \in MailOutcomes : CheckMail(m)
    \/ CheckFlag
    \/ \E db \in IO : ResetBegin(db)
    \/ \E fl \in IO : ResetFlag(fl)

StepSpec == Init /\ [][StepNext]_vars

\* The collector left alone with a table: no request is made, the periodic
\* job is the only thing that runs, and repeat_every runs it every 300 s for
\* as long as the process lives.
JobInit == OrderInit

JobNext == accumulative_temperature_check

JobSpec == JobInit /\ [][JobNext]_vars /\ WF_vars(accumulative_temperature_check)

----------------------------------------------------------------------------
(* Claims about the client *)

InQueue(r) == r \in Elems(file.q)

QueuedLeavesOnlyAcked ==
    [][\A r \in Elems(file.q) :
          r \notin Elems(file'.q) => (r \in acked' \/ Reset)]_vars

\* C8: valid(t) is exactly -10 <= t <= 100, and a tick that samples an invalid
\* temperature leaves the persisted queue alone, attempts no delivery (nothing
\* reaches the collector, nothing is acknowledged) and is back at the top of
\* the loop.
InvalidNeverEnters ==
    /\ [](valid = (-10 <= temperature /\ temperature <= 100))
    /\ [][(beat' # beat /\ (temperature' < -10 \/ temperature' > 100))
            => /\ file' = file
               /\ attempts' = <<>>
               /\ store' = store
               /\ acked' = acked
               /\ pc' = "loop"]_vars

\* C8 witness: an invalid sample (just above the range) was taken while
\* readings were waiting in the queue.
InvalidNeverEntersWitness ==
    /\ pc = "loop" /\ ~valid /\ temperature = 101
    /\ file.st = "ok" /\ Len(file.q) = 2
    /\ attempts = <<>>

\* C9 (as claimed): the collector's table holds a delivered reading once.
StoredOnce ==
    \A i, j \in 1..Len(store) :
        (store[i].timestamp = store[j].timestamp
            /\ store[i].temperature = store[j].temperature) => i = j

\* C3 (as claimed): once the probe and every delivery succeed for good and the
\* loop keeps ticking, the queue file eventually stays absent.
EventualDelivery == <>calm => <>[](file.st = "absent")

\* C3 (amended): the same, provided valid temperatures keep being sampled;
\* and in that regime a reading leaves the queue only acknowledged.
EventualDeliveryOnValidTicks ==
    /\ []<>(calm /\ pc = "sendcur") => <>[](file.st = "absent")
    /\ [][calm => \A r \in Elems(file.q) :
                     r \notin Elems(file'.q) => r \in acked']_vars

\* C3 witness: in the settled environment a drain pass delivered what was
\* queued and removed the file.
EventualDeliveryWitness ==
    /\ calm /\ pc = "sendcur" /\ file.st = "absent"
    /\ Len(attempts) > 0 /\ Elems(attempts) \subseteq acked

----------------------------------------------------------------------------
(* Claims about the collector *)

AlertGuard ==
    [][hist'.op = "check" =>
         /\ (hist'.mail # "none") = (hist'.acc > THRESHOLD /\ flag # "1")
         /\ (flag = "1" \/ hist'.acc <= THRESHOLD)
               => (flag' = flag /\ mails' = mails)]_vars

\* C5 witness: a check found the value exactly at the threshold with the flag
\* not set, and invoked nothing.
AlertGuardWitness ==
    /\ hist.op = "check" /\ hist.acc = THRESHOLD
    /\ ~hist.notified /\ hist.mail = "none" /\ mails = 0

\* C6 (as claimed): whatever the reset answers, it either deleted every row and
\* left the flag false, or left rows and flag as they were.
ResetAllOrNothing ==
    [][hist'.op = "reset" =>
         \/ store' = <<>> /\ ~is_notified(flag')
         \/ store' = store /\ flag' = flag]_vars

EarliestSec(st) ==
    CHOOSE t \in {st[i].timestamp.sec : i \in 1..Len(st)} :
        \A i \in 1..Len(st) : t <= st[i].timestamp.sec

WindowOf(t, t0) ==
    IF t - t0 <= WINDOW THEN 0 ELSE (t - t0 - 1) \div WINDOW

WindowRows(st, k) ==
    {r \in Elems(st) : WindowOf(r.timestamp.sec, EarliestSec(st)) = k}

WindowMax(rows) ==
    CHOOSE m \in {r.temperature : r \in rows} : \A r \in rows : r.temperature <= m

WindowMaxSec(rows) ==
    LET at == {r.timestamp.sec : r \in {q \in rows : q.temperature = WindowMax(rows)}}
    IN  CHOOSE t \in at : \A u \in at : t <= u

RECURSIVE ClaimedFrom(_, _, _)
ClaimedFrom(st, k, last) ==
    IF k > last THEN Result(0, <<>>)
    ELSE LET rest == ClaimedFrom(st, k + 1, last)
             rows == WindowRows(st, k)
         IN  IF rows = {} THEN rest
             ELSE Result(WindowMax(rows) + rest.acc,
                         <<<<server_strftime(WindowMaxSec(rows)), WindowMax(rows)>>>>
                             \o rest.points)

Claimed(st) ==
    IF st = <<>> THEN Result(0, <<>>)
    ELSE LET last == CHOOSE k \in {WindowOf(st[i].timestamp.sec, EarliestSec(st)) :
                                      i \in 1..Len(st)} :
                         \A i \in 1..Len(st) :
                             WindowOf(st[i].timestamp.sec, EarliestSec(st)) <= k
         IN  ClaimedFrom(st, 0, last)

AllParseable(st) == \A i \in 1..Len(st) : Parseable(st[i].timestamp)

\* C10 (as claimed): for every table whose timestamps all parse, the answer of
\* GET /accumulative_temperature/ is one entry per non-empty window anchored at
\* the earliest instant, in ascending order, with that window's maximum and
\* where it occurred, and the sum of those maxima.
WindowedMatchesClaim ==
    (hist.op = "check" /\ AllParseable(store))
        => resp = [code |-> 200, body |-> accumulative_body(Claimed(store))]

\* The same holds of tables whose timestamps are all written alike.
SameShape(st) == \A i, j \in 1..Len(st) : st[i].timestamp.sp = st[j].timestamp.sp

WindowedMatchesOnSameShape ==
    (hist.op = "check" /\ AllParseable(store) /\ SameShape(store))
        => resp = [code |-> 200, body |-> accumulative_body(Claimed(store))]

----------------------------------------------------------------------------
(* Claims about malformed rows and the daily maximum *)

ValidRows(st) == SelectSeq(st, LAMBDA r : Parseable(r.timestamp))

\* C11 (as claimed): with a row in the table whose timestamp cannot be parsed,
\* both policies answer without an error, with the result of the remaining
\* rows alone.
MalformedTolerated ==
    /\ hist.op = "check"
         => resp = [code |-> 200, body |-> accumulative_body(windowed(ValidRows(store)))]
    /\ hist.op = "daily"
         => resp = [code |-> 200, body |-> accumulative_body(daily(ValidRows(store)))]

----------------------------------------------------------------------------
(* Further claims about the client *)

\* C12 (as claimed): no failure inside a tick ends the sampling loop; the
\* process stops only when it is killed from outside.
LoopNeverDies == pc # "died"

----------------------------------------------------------------------------
(* Further claims about the aggregation *)

Orders(n) == {p \in [1..n -> 1..n] : \A i, j \in 1..n : p[i] = p[j] => i = j}

\* the table the same readings give when they are ingested in the order p
Reingest(st, p) ==
    [i \in 1..Len(st) |-> Row(i, st[p[i]].timestamp, st[p[i]].temperature)]

\* C13: the answer of GET /accumulative_temperature/ is the one every
\* ingestion order of the same readings gives; asking again with nothing
\* ingested or reset in between gives the same answer; and asking leaves the
\* table as it is.
OrderFreeIdempotent ==
    /\ [](hist.op = "check" =>
            \A p \in Orders(Len(store)) :
                LET res == windowed(Reingest(store, p))
                IN  resp = IF res.error THEN [code |-> 500, body |-> <<>>]
                           ELSE [code |-> 200, body |-> accumulative_body(res)])
    /\ [][hist'.op = "check" =>
            /\ store' = store
            /\ hist.op = "check" => resp' = resp]_vars

\* C13 witness: three readings ingested latest first, in two windows, were
\* aggregated again after the aggregation before had raised the alert.
OrderFreeIdempotentWitness ==
    /\ hist.op = "check" /\ Len(store) = 3
    /\ store[1].timestamp.sec > store[2].timestamp.sec
    /\ store[2].timestamp.sec > store[3].timestamp.sec
    /\ Len(resp.body[2]) = 2
    /\ flag = "1" /\ hist.notified

----------------------------------------------------------------------------
(* Further claims about the alert *)

AboveThreshold(st) == ~windowed(st).error /\ windowed(st).acc > THRESHOLD

\* C14 (as claimed): with the stored readings above the threshold and the flag
\* not set, and no request ever made, the periodic job comes to invoke the
\* notifier.
ScheduledCheckAlerts ==
    (AboveThreshold(store) /\ ~is_notified(flag))
        ~> (hist.op = "job" /\ hist.mail # "none")

\* The daily maximum as C15 states it: the calendar dates present, the maximum
\* of each, and the sum of the maxima.
DatesOf(st) == {st[i].timestamp.sec \div DAY : i \in 1..Len(st)}

DateMax(st, d) ==
    LET temps == {st[i].temperature :
                     i \in {j \in 1..Len(st) : st[j].timestamp.sec \div DAY = d}}
    IN  CHOOSE m \in temps : \A t \in temps : t <= m

RECURSIVE SumOfMaxima(_, _)
SumOfMaxima(st, dates) ==
    IF dates = {} THEN 0
    ELSE LET d == CHOOSE x \in dates : TRUE
         IN  DateMax(st, d) + SumOfMaxima(st, dates \ {d})

\* C15: for every table of well-formed timestamps the daily policy returns one
\* entry per calendar date present, whatever the time of day and the number of
\* blanks, holding that date's maximum, the dates ascending, and the sum of
\* those maxima.
DailyMatchesClaim ==
    (hist.op = "daily" /\ AllParseable(store)) =>
        LET acc == resp.body[1]
            points == resp.body[2]
        IN  /\ resp.code = 200
            /\ Len(points) = Cardinality(DatesOf(store))
            /\ \A d \in DatesOf(store) : \E i \in 1..Len(points) :
                   points[i] = <<[bad |-> FALSE, day |-> d], DateMax(store, d)>>
            /\ \A i, j \in 1..Len(points) :
                   i < j => points[i][1].day < points[j][1].day
            /\ acc = SumOfMaxima(store, DatesOf(store))

\* C15 witness: readings at different times of two dates, the later date
\* ingested first, with maxima 40 and 60: the sum is 100, two entries.
DailyMatchesClaimWitness ==
    /\ hist.op = "daily" /\ Len(store) = 3
    /\ store[1].timestamp.sec >= DAY /\ store[3].timestamp.sec < DAY
    /\ resp.body = <<100, << <<[bad |-> FALSE, day |-> 0], 40>>,
                             <<[bad |-> FALSE, day |-> 1], 60>> >> >>

----------------------------------------------------------------------------
(* Claims about the drain pass and the offline tick *)

\* the drain pass has run through `for item in unsent_data`
PassDone == pc = "drain" /\ idx >= Len(unsent)

\* C16 (as claimed): when the drain pass is through, a delivery was attempted
\* for every loaded reading, once each and in order, and the list about to be
\* persisted is the loaded one without the acknowledged readings.
DrainCompleteExact ==
    PassDone =>
        /\ attempts = load_unsent_data(file)
        /\ unsent = SelectSeq(load_unsent_data(file), LAMBDA r : r \notin acked)

ResetIsolated ==
    /\ [][hist.at # "idle" => (hist'.rat = hist.rat /\ store' = store)]_vars
    /\ [][hist.rat # "idle" => hist'.at = hist.at]_vars
    /\ [](store = <<>> /\ wasReset # "no" /\ ~flagErr /\ hist.rat = "idle"
            => ~is_notified(flag))

\* C18 witness: a check sent its mail and set the flag, and the reset after it
\* has emptied the table and cleared the flag.
ResetIsolatedWitness ==
    /\ hist.op = "reset" /\ hist.rat = "idle" /\ hist.mail = "sent"
    /\ wasReset = "rearmed" /\ ~flagErr
    /\ store = <<>> /\ flag = "0" /\ resp = [code |-> 200, body |-> <<>>]

CrashAtomicSnapshots ==
    [][(pc \notin Halted /\ pc' = "stopped") =>
         file' \in {file}
                   \cup (IF pc = "save" /\ file.st # "torn"
                         THEN {save_unsent_data(file, data[1])} ELSE {})
                   \cup (IF PassDone /\ unsent # <<>>
                         THEN {Written(unsent)} ELSE {})]_vars

====
